---- MODULE Spec2Model ----
(***************************************************************************)
(* Model of the synthesis-and-normalization core of the TTS service:       *)
(*   - RealTTSSynthesizer (app/tts_synthesizer_real.py): voice registry,   *)
(*     current voice, backend dispatch, offline -> network fallback;       *)
(*   - the audio normalizer (app/audio_utils.py): validate_audio_format,   *)
(*     normalize_audio, prepare_audio_for_tts.                             *)
(* Strings whose structure matters (texts, file names, extensions) are     *)
(* sequences of one-character strings or of path tokens.                   *)
(***************************************************************************)
EXTENDS Integers, Sequences, FiniteSets, TLC

VARIABLES
    pyttsx3_engine,     \* self.pyttsx3_engine: "None" or "engine"
    available_voices,   \* self.available_voices: voice id -> voice info
    current_voice,      \* self.current_voice
    engine_voice,       \* the 'voice' property of the pyttsx3 engine
    files,              \* files that exist (token sequences)
    dirs,               \* directories created by os.makedirs
    call,               \* synthesize_text calls: CallIds -> frame
    ret,                \* return value of the last non-synthesis call
    libs,               \* AUDIO_LIBS_AVAILABLE
    job                 \* the running audio_utils call

vars == <<pyttsx3_engine, available_voices, current_voice, engine_voice,
          files, dirs, call, ret, libs, job>>

-----------------------------------------------------------------------------
(* Bounds of the model *)

MaxSystemVoices == 1

-----------------------------------------------------------------------------
(* Values *)

None == "None"

Truthy(v) == v # None /\ v # ""

Whitespace == {" ", "\t", "\n"}

RECURSIVE LStrip(_)
LStrip(s) ==
    IF s # <<>> /\ Head(s) \in Whitespace THEN LStrip(Tail(s)) ELSE s

RECURSIVE RStrip(_)
RStrip(s) ==
    IF s # <<>> /\ s[Len(s)] \in Whitespace
    THEN RStrip(SubSeq(s, 1, Len(s) - 1))
    ELSE s

StripNothing(s) == s

\* str.strip()
Strip(s) == RStrip(LStrip(s))

-----------------------------------------------------------------------------
(* The voice registry *)

SystemVoiceId(i) == "system_" \o ToString(i)

SystemVoiceHandle(i) == "sv" \o ToString(i)

NativeVoice == "native"

BuiltinVoices ==
    [id \in {"default", "gtts_pt", "gtts_en"} |->
        CASE id = "default" ->
               [id |-> "default", engine |-> "pyttsx3", lang |-> "pt-BR"]
          [] id = "gtts_pt" ->
               [id |-> "gtts_pt", engine |-> "gtts", lang |-> "pt"]
          [] id = "gtts_en" ->
               [id |-> "gtts_en", engine |-> "gtts", lang |-> "en"]]

\* the registry after a successful initialisation that enumerated n voices
FullRegistry(n) ==
    [id \in DOMAIN BuiltinVoices \cup {SystemVoiceId(i) : i \in 0..(n - 1)} |->
        IF id \in DOMAIN BuiltinVoices
        THEN BuiltinVoices[id]
        ELSE LET i == CHOOSE k \in 0..(n - 1) : SystemVoiceId(k) = id
             IN  [id |-> id, engine |-> "pyttsx3", lang |-> "pt-BR",
                  system_voice |-> SystemVoiceHandle(i)]]

FallbackRegistryNoPt ==
    [id \in {"gtts_en"} |->
        [id |-> "gtts_en", engine |-> "gtts", lang |-> "en"]]

\* the registry installed by the exception handler of _initialize_engines
FallbackRegistry ==
    [id \in {"gtts_pt"} |->
        [id |-> "gtts_pt", engine |-> "gtts", lang |-> "pt"]]

InitialVoiceSystem == "system_0"

\* the value __init__ gives current_voice before _initialize_engines runs
InitialVoice == "default"

-----------------------------------------------------------------------------
(* Paths *)

Sep == "/"

OUTPUT_DIR == <<"outputs">>

RECURSIVE LastSep(_)
LastSep(p) ==
    IF p = <<>> THEN 0
    ELSE IF p[Len(p)] = Sep THEN Len(p)
    ELSE LastSep(SubSeq(p, 1, Len(p) - 1))

\* os.path.dirname
Dirname(p) == IF LastSep(p) = 0 THEN <<>> ELSE SubSeq(p, 1, LastSep(p) - 1)

RECURSIVE ReplaceWav(_)
ReplaceWav(p) ==
    IF p = <<>> THEN <<>>
    ELSE IF Head(p) = ".wav"
         THEN <<"_temp", ".wav">> \o ReplaceWav(Tail(p))
         ELSE <<Head(p)>> \o ReplaceWav(Tail(p))

TempPathShared(p) == Dirname(p) \o <<Sep, "temp", ".wav">>

\* line 177: temp_path = output_path.replace('.wav', '_temp.wav')
TempPath(p) == ReplaceWav(p)

NoPath == [kind |-> "None", toks |-> <<>>]

StrPath(toks) == [kind |-> "str", toks |-> toks]

PathObj(toks) == [kind |-> "Path", toks |-> toks]

\* "if not output_path": None and "" are falsy, a Path object never is
PathFalsy(p) == p.kind = "None" \/ (p.kind = "str" /\ p.toks = <<>>)

\* f"tts_{timestamp}_{random_id}.wav" under config.OUTPUT_DIR
GeneratedPath(ts, rid) ==
    StrPath(OUTPUT_DIR \o <<Sep, "tts_", ts, "_", rid, ".wav">>)

-----------------------------------------------------------------------------
(* Inputs *)

DefaultSampleRate == 22050

Texts == {<<>>, <<" ", "\n">>, <<" ", "o", "i", " ">>}

VoiceIdChoices ==
    {None, "", "default", "gtts_pt", "gtts_en", "nonexistent"}
        \cup {SystemVoiceId(i) : i \in 0..(MaxSystemVoices - 1)}

OutPathChoices ==
    {NoPath,
     StrPath(<<"sub", Sep, "a", ".mp3">>),
     PathObj(OUTPUT_DIR \o <<Sep, "b", ".mp3">>),
     StrPath(<<"d", ".wav">>)}

Timestamps == {"1700000000"}

RandIds == {"0a1b2c3d"}

SampleRates == {DefaultSampleRate}

\* rates at which the engines deliver their audio
NativeRates == {DefaultSampleRate, 24000}

\* calls are served one at a time (text_to_speech blocks the event loop)
CallIds == {1}

-----------------------------------------------------------------------------
(* synthesize_text: frames *)

NoResult == [kind |-> "none"]

Returned(v) == [kind |-> "returned", value |-> v]

\* a Python None handed back to the caller
ReturnedNone == [kind |-> "returned_none"]

Raised(e) == [kind |-> "raised", error |-> e]

IdleCall ==
    [pc |-> "idle", text |-> <<>>, voice_id |-> None, output_path |-> NoPath,
     sample_rate |-> 0, voice_to_use |-> None, voice_info |-> [engine |-> "none"],
     temp_path |-> <<>>, original_sr |-> 0, attempts |-> <<>>, failed |-> <<>>,
     remove |-> "none", result |-> NoResult]

NoRet == [op |-> "none"]

Quiescent == ret = NoRet /\ \A c \in DOMAIN call : call[c].pc = "idle"

Attempt(info, path) == [engine |-> info.engine, lang |-> info.lang, path |-> path]

ResolveVoiceCurrentFirst(voice_id, cur, reg) ==
    IF Truthy(voice_id) /\ voice_id \in DOMAIN reg THEN voice_id
    ELSE IF cur \in DOMAIN reg THEN cur
    ELSE "gtts_pt"

\* voice_to_use = voice_id or self.current_voice, then the registry test
ResolveVoice(voice_id, cur, reg) ==
    LET v == IF Truthy(voice_id) THEN voice_id ELSE cur
    IN  IF v \in DOMAIN reg THEN v ELSE "gtts_pt"

GttsFallbackVoiceOfRequest == [engine |-> "gtts", lang |-> "pt-BR"]

\* gtts_voice of the exception handler of _synthesize_pyttsx3
GttsFallbackVoice == [engine |-> "gtts", lang |-> "pt"]

GttsExceptRetry(c) ==
    call' = [call EXCEPT ![c].pc = "gtts_new",
                         ![c].attempts = Append(@, Attempt(GttsFallbackVoice,
                                                           call[c].output_path))]

\* the exception handler of _synthesize_gtts, and of synthesize_text above it
GttsExcept(c) ==
    call' = [call EXCEPT ![c].pc = "done", ![c].result = Raised("Exception")]

Fail(c, engine, step, pc) ==
    [call EXCEPT ![c].pc = pc,
                 ![c].failed = Append(@, [engine |-> engine, step |-> step])]

-----------------------------------------------------------------------------
(* RealTTSSynthesizer: construction and the short operations *)

SynthInit ==
    /\ \/ \E n \in 0..MaxSystemVoices :
            /\ pyttsx3_engine = "engine"
            /\ available_voices = FullRegistry(n)
       \/ \* pyttsx3.init() raised
          /\ pyttsx3_engine = None
          /\ available_voices = FallbackRegistry
       \/ \* setProperty or getProperty raised after pyttsx3.init()
          /\ pyttsx3_engine = "engine"
          /\ available_voices = FallbackRegistry
    /\ current_voice = InitialVoice
    /\ engine_voice = NativeVoice
    /\ files = {}
    /\ dirs = {OUTPUT_DIR}
    /\ call = [c \in CallIds |-> IdleCall]
    /\ ret = NoRet

SetVoiceAlways(voice_id, cur, reg) == voice_id

\* the value of self.current_voice after set_voice(voice_id)
SetVoiceCurrent(voice_id, cur, reg) ==
    IF voice_id \in DOMAIN reg THEN voice_id ELSE cur

set_voice(voice_id) ==
    /\ Quiescent
    /\ current_voice' =
           SetVoiceCurrent(voice_id, current_voice, available_voices)
    /\ IF /\ voice_id \in DOMAIN available_voices
          /\ available_voices[voice_id].engine = "pyttsx3"
          /\ "system_voice" \in DOMAIN available_voices[voice_id]
       THEN \* setProperty('voice', ...) inside a bare try/except
            \E ok \in BOOLEAN :
               engine_voice' =
                   IF ok /\ pyttsx3_engine # None
                   THEN available_voices[voice_id].system_voice
                   ELSE engine_voice
       ELSE engine_voice' = engine_voice
    /\ ret' = [op |-> "set_voice", arg |-> voice_id,
               value |-> voice_id \in DOMAIN available_voices]
    /\ UNCHANGED <<pyttsx3_engine, available_voices, files, dirs, call,
                   libs, job>>

get_available_voices ==
    /\ Quiescent
    /\ ret' = [op |-> "get_available_voices", arg |-> None,
               value |-> {available_voices[id] : id \in DOMAIN available_voices}]
    /\ UNCHANGED <<pyttsx3_engine, available_voices, current_voice,
                   engine_voice, files, dirs, call, libs, job>>

clone_voice ==
    /\ Quiescent
    /\ ret' = [op |-> "clone_voice", arg |-> None, value |-> FALSE]
    /\ UNCHANGED <<pyttsx3_engine, available_voices, current_voice,
                   engine_voice, files, dirs, call, libs, job>>

\* the caller takes the return value
TakeReturn ==
    /\ ret # NoRet
    /\ ret' = NoRet
    /\ UNCHANGED <<pyttsx3_engine, available_voices, current_voice,
                   engine_voice, files, dirs, call, libs, job>>

-----------------------------------------------------------------------------
(* synthesize_text *)

\* lines 111-135: the text test, backend resolution, path generation (with
\* the clock reading ts and the uuid prefix rid), os.makedirs and the dispatch
\* on the engine kind
SynthesizeEnter(c, text, voice_id, output_path, sample_rate, ts, rid) ==
    /\ LET frame == [IdleCall EXCEPT !.text = text, !.voice_id = voice_id,
                                     !.output_path = output_path,
                                     !.sample_rate = sample_rate]
       IN
       IF Strip(text) = <<>>
       THEN /\ call' = [call EXCEPT ![c] =
                           [frame EXCEPT !.pc = "done",
                                         !.result = Raised("ValueError")]]
            /\ dirs' = dirs
       ELSE LET v    == ResolveVoice(voice_id, current_voice, available_voices)
                info == available_voices[v]
            IN  \E mk \in BOOLEAN :
                  LET out   == IF PathFalsy(output_path)
                               THEN GeneratedPath(ts, rid)
                               ELSE output_path
                      dir   == Dirname(out.toks)
                      ready == [frame EXCEPT !.voice_to_use = v,
                                             !.voice_info = info,
                                             !.output_path = out]
                  IN  IF dir = <<>> \/ ~mk
                      THEN \* os.makedirs raised, outside the try block
                           /\ call' = [call EXCEPT ![c] =
                                  [ready EXCEPT !.pc = "done",
                                                !.result = Raised("OSError")]]
                           /\ dirs' = dirs
                      ELSE /\ call' = [call EXCEPT ![c] =
                                  [ready EXCEPT
                                     !.pc = IF info.engine = "gtts"
                                            THEN "gtts_new" ELSE "py_bind",
                                     !.attempts = <<Attempt(info, out)>>]]
                           /\ dirs' = dirs \cup {dir}
    /\ UNCHANGED <<pyttsx3_engine, available_voices, current_voice,
                   engine_voice, files, ret, libs, job>>

\* a call served while no other is in progress
synthesize_text(c, text, voice_id, output_path, sample_rate) ==
    /\ Quiescent
    /\ \E ts \in Timestamps, rid \in RandIds :
         SynthesizeEnter(c, text, voice_id, output_path, sample_rate, ts, rid)

synthFrame == <<pyttsx3_engine, available_voices, current_voice, dirs, ret,
                libs, job>>

\* line 173-174: bind the system voice of the resolved backend
PyBind(c) ==
    /\ call[c].pc = "py_bind"
    /\ IF "system_voice" \in DOMAIN call[c].voice_info
       THEN \E ok \in BOOLEAN :
              IF ok
              THEN /\ engine_voice' = call[c].voice_info.system_voice
                   /\ call' = [call EXCEPT ![c].pc = "py_temp"]
              ELSE /\ engine_voice' = engine_voice
                   /\ call' = Fail(c, "pyttsx3", "bind", "py_except")
       ELSE /\ engine_voice' = engine_voice
            /\ call' = [call EXCEPT ![c].pc = "py_temp"]
    /\ UNCHANGED <<synthFrame, files>>

\* line 177: output_path.replace('.wav', '_temp.wav'); pathlib.Path.replace
\* takes one argument, so a Path object raises TypeError here
PyTemp(c) ==
    /\ call[c].pc = "py_temp"
    /\ IF call[c].output_path.kind = "Path"
       THEN call' = Fail(c, "pyttsx3", "temp_path", "py_except")
       ELSE call' = [call EXCEPT ![c].pc = "py_save",
                                 ![c].temp_path = TempPath(call[c].output_path.toks)]
    /\ UNCHANGED <<synthFrame, engine_voice, files>>

\* lines 180-181: save_to_file and runAndWait
PySave(c) ==
    /\ call[c].pc = "py_save"
    /\ \E ok \in BOOLEAN, written \in BOOLEAN :
         /\ files' = IF written THEN files \cup {call[c].temp_path} ELSE files
         /\ call' = IF ok THEN [call EXCEPT ![c].pc = "py_exists"]
                    ELSE Fail(c, "pyttsx3", "save", "py_except")
    /\ UNCHANGED <<synthFrame, engine_voice>>

\* lines 184-185
PyExists(c) ==
    /\ call[c].pc = "py_exists"
    /\ call' = IF call[c].temp_path \in files
               THEN [call EXCEPT ![c].pc = "py_load"]
               ELSE Fail(c, "pyttsx3", "missing", "py_except")
    /\ UNCHANGED <<synthFrame, engine_voice, files>>

\* line 188: librosa.load(temp_path, sr=None)
PyLoad(c) ==
    /\ call[c].pc = "py_load"
    /\ \E ok \in BOOLEAN, sr \in NativeRates :
         call' = IF ok THEN [call EXCEPT ![c].pc = "py_resample",
                                         ![c].original_sr = sr]
                 ELSE Fail(c, "pyttsx3", "decode", "py_except")
    /\ UNCHANGED <<synthFrame, engine_voice, files>>

\* lines 191-192
PyResample(c) ==
    /\ call[c].pc = "py_resample"
    /\ IF call[c].original_sr # call[c].sample_rate
       THEN \E ok \in BOOLEAN :
              call' = IF ok THEN [call EXCEPT ![c].pc = "py_write"]
                      ELSE Fail(c, "pyttsx3", "resample", "py_except")
       ELSE call' = [call EXCEPT ![c].pc = "py_write"]
    /\ UNCHANGED <<synthFrame, engine_voice, files>>

\* line 195: sf.write(output_path, ...); a failed write may leave a file
PyWrite(c) ==
    /\ call[c].pc = "py_write"
    /\ \E ok \in BOOLEAN, partial \in BOOLEAN :
         IF ok
         THEN /\ files' = files \cup {call[c].output_path.toks}
              /\ call' = [call EXCEPT ![c].pc = "py_remove"]
         ELSE /\ files' = IF partial THEN files \cup {call[c].output_path.toks}
                          ELSE files
              /\ call' = Fail(c, "pyttsx3", "encode", "py_except")
    /\ UNCHANGED <<synthFrame, engine_voice>>

\* lines 198-204: os.remove(temp_path) in a bare try/except, then return
PyRemove(c) ==
    /\ call[c].pc = "py_remove"
    /\ \E ok \in BOOLEAN :
         /\ files' = IF ok THEN files \ {call[c].temp_path} ELSE files
         /\ call' = [call EXCEPT ![c].pc = "done",
                                 ![c].remove = IF ok THEN "ok" ELSE "failed",
                                 ![c].result = Returned(call[c].output_path)]
    /\ UNCHANGED <<synthFrame, engine_voice>>

\* lines 206-211: the fallback to gTTS
PyExcept(c) ==
    /\ call[c].pc = "py_except"
    /\ call' = [call EXCEPT ![c].pc = "gtts_new",
                            ![c].voice_info = GttsFallbackVoice,
                            ![c].attempts =
                                Append(@, Attempt(GttsFallbackVoice,
                                                  call[c].output_path))]
    /\ UNCHANGED <<synthFrame, engine_voice, files>>

\* lines 145-150: gTTS(...) and write_to_fp, the network request
GttsNew(c) ==
    /\ call[c].pc = "gtts_new"
    /\ \E ok \in BOOLEAN :
         call' = IF ok THEN [call EXCEPT ![c].pc = "gtts_load"]
                 ELSE Fail(c, "gtts", "request", "gtts_except")
    /\ UNCHANGED <<synthFrame, engine_voice, files>>

\* line 153: librosa.load(temp_buffer, sr=None)
GttsLoad(c) ==
    /\ call[c].pc = "gtts_load"
    /\ \E ok \in BOOLEAN, sr \in NativeRates :
         call' = IF ok THEN [call EXCEPT ![c].pc = "gtts_resample",
                                         ![c].original_sr = sr]
                 ELSE Fail(c, "gtts", "decode", "gtts_except")
    /\ UNCHANGED <<synthFrame, engine_voice, files>>

\* lines 156-157
GttsResample(c) ==
    /\ call[c].pc = "gtts_resample"
    /\ IF call[c].original_sr # call[c].sample_rate
       THEN \E ok \in BOOLEAN :
              call' = IF ok THEN [call EXCEPT ![c].pc = "gtts_write"]
                      ELSE Fail(c, "gtts", "resample", "gtts_except")
       ELSE call' = [call EXCEPT ![c].pc = "gtts_write"]
    /\ UNCHANGED <<synthFrame, engine_voice, files>>

\* lines 160-163: sf.write(output_path, ...) and return
GttsWrite(c) ==
    /\ call[c].pc = "gtts_write"
    /\ \E ok \in BOOLEAN, partial \in BOOLEAN :
         IF ok
         THEN /\ files' = files \cup {call[c].output_path.toks}
              /\ call' = [call EXCEPT ![c].pc = "done",
                                      ![c].result = Returned(call[c].output_path)]
         ELSE /\ files' = IF partial THEN files \cup {call[c].output_path.toks}
                          ELSE files
              /\ call' = Fail(c, "gtts", "encode", "gtts_except")
    /\ UNCHANGED <<synthFrame, engine_voice>>

\* lines 165-167 and 137-139: log and re-raise
GttsRaise(c) ==
    /\ call[c].pc = "gtts_except"
    /\ GttsExcept(c)
    /\ UNCHANGED <<synthFrame, engine_voice, files>>

\* the caller takes the result of synthesize_text
TakeResult(c) ==
    /\ call[c].pc = "done"
    /\ call' = [call EXCEPT ![c] = IdleCall]
    /\ UNCHANGED <<synthFrame, engine_voice, files>>

Next ==
    \/ \E id \in VoiceIdChoices : set_voice(id)
    \/ get_available_voices
    \/ clone_voice
    \/ TakeReturn
    \/ \E c \in CallIds, text \in Texts, voice_id \in VoiceIdChoices,
          output_path \in OutPathChoices, sample_rate \in SampleRates :
            synthesize_text(c, text, voice_id, output_path, sample_rate)
    \/ \E c \in CallIds : PyBind(c)
    \/ \E c \in CallIds : PyTemp(c)
    \/ \E c \in CallIds : PySave(c)
    \/ \E c \in CallIds : PyExists(c)
    \/ \E c \in CallIds : PyLoad(c)
    \/ \E c \in CallIds : PyResample(c)
    \/ \E c \in CallIds : PyWrite(c)
    \/ \E c \in CallIds : PyRemove(c)
    \/ \E c \in CallIds : PyExcept(c)
    \/ \E c \in CallIds : GttsNew(c)
    \/ \E c \in CallIds : GttsLoad(c)
    \/ \E c \in CallIds : GttsResample(c)
    \/ \E c \in CallIds : GttsWrite(c)
    \/ \E c \in CallIds : GttsRaise(c)
    \/ \E c \in CallIds : TakeResult(c)

-----------------------------------------------------------------------------
(* audio_utils: configuration and file names *)

MIN_AUDIO_DURATION == 30

MAX_AUDIO_DURATION == 300

AUDIO_SAMPLE_RATE == 16000

Dot == "."

SUPPORTED_INPUT_FORMATS ==
    {<<Dot, "w", "a", "v">>, <<Dot, "m", "p", "3">>, <<Dot, "f", "l", "a", "c">>}

UpperCase == <<"A", "B", "C", "D", "E", "F", "G", "H", "I", "J", "K", "L", "M",
               "N", "O", "P", "Q", "R", "S", "T", "U", "V", "W", "X", "Y", "Z">>

LowerCase == <<"a", "b", "c", "d", "e", "f", "g", "h", "i", "j", "k", "l", "m",
               "n", "o", "p", "q", "r", "s", "t", "u", "v", "w", "x", "y", "z">>

LowerChar(ch) ==
    IF \E i \in 1..Len(UpperCase) : UpperCase[i] = ch
    THEN LowerCase[CHOOSE i \in 1..Len(UpperCase) : UpperCase[i] = ch]
    ELSE ch

\* str.lower()
Lower(s) == [i \in 1..Len(s) |-> LowerChar(s[i])]

RECURSIVE LastDot(_)
LastDot(name) ==
    IF name = <<>> THEN 0
    ELSE IF name[Len(name)] = Dot THEN Len(name)
    ELSE LastDot(SubSeq(name, 1, Len(name) - 1))

\* pathlib: the suffix starts at the last dot, unless that dot opens or
\* closes the name
Suffix(name) ==
    LET i == LastDot(name)
    IN  IF i <= 1 \/ i = Len(name) THEN <<>> ELSE SubSeq(name, i, Len(name))

\* pathlib: the name without its suffix
Stem(name) == SubSeq(name, 1, Len(name) - Len(Suffix(name)))

\* output_dir / f"processed_{file_path.stem}.wav"
ProcessedPath(output_dir, name) ==
    output_dir \o <<Sep, "processed_">> \o Stem(name) \o <<".wav">>

-----------------------------------------------------------------------------
(* audio_utils: input files *)

FileNames ==
    {<<"r", Dot, "w", "a", "v">>,
     <<"r", Dot, "W", "A", "V">>,
     <<"r", Dot, "M", "p", "3">>,
     <<"a", Dot, "b", Dot, "f", "l", "a", "c">>,
     <<"r", Dot, "o", "g", "g">>,
     <<Dot, "w", "a", "v">>,
     <<"w", "a", "v">>}

FileRates == {AUDIO_SAMPLE_RATE, 44100}

FileChannels == {1, 2}

\* frame counts around the duration bounds, and the 5 s, 60 s and 400 s files
FrameCounts(rate) ==
    {5 * rate, MIN_AUDIO_DURATION * rate - 1, MIN_AUDIO_DURATION * rate,
     60 * rate, MAX_AUDIO_DURATION * rate, MAX_AUDIO_DURATION * rate + 1,
     400 * rate}

\* the content of a file: samples[c][i] / unit is the value of frame i of
\* channel c
MissingFile(name) ==
    [name |-> name, exists |-> FALSE, decodes |-> FALSE,
     frames |-> 0, samplerate |-> 0, channels |-> 0,
     unit |-> 1, samples |-> <<>>]

BrokenFile(name) ==
    [name |-> name, exists |-> TRUE, decodes |-> FALSE,
     frames |-> 0, samplerate |-> 0, channels |-> 0,
     unit |-> 1, samples |-> <<>>]

\* the files of the duration checks are long; of their content the model keeps
\* a one-frame excerpt per channel, of value 0.5
Excerpt(ch) == [unit |-> 4, samples |-> [c \in 1..ch |-> <<2>>]]

InputFiles ==
    {MissingFile(n) : n \in FileNames}
      \cup {BrokenFile(n) : n \in FileNames}
      \cup UNION {{[name |-> n, exists |-> TRUE, decodes |-> TRUE,
                    frames |-> fr, samplerate |-> r, channels |-> ch,
                    unit |-> Excerpt(ch).unit,
                    samples |-> Excerpt(ch).samples] :
                      n \in FileNames, fr \in FrameCounts(r), ch \in FileChannels} :
                  r \in FileRates}

\* the files normalize_audio is called on directly
NormalizeInputs == {f \in InputFiles : f.frames \in {0, 5 * f.samplerate}}

OutputDirs == {<<"voices">>}

-----------------------------------------------------------------------------
(* validate_audio_format *)

\* duration = len(audio) / audio.samplerate, compared exactly: for rate > 0,
\* frames / rate < bound  iff  frames < bound * rate
TooShortInclusive(frames, rate) == frames <= MIN_AUDIO_DURATION * rate

\* duration < config.MIN_AUDIO_DURATION
TooShort(frames, rate) == frames < MIN_AUDIO_DURATION * rate

\* duration > config.MAX_AUDIO_DURATION
TooLong(frames, rate) == frames > MAX_AUDIO_DURATION * rate

\* the return value of validate_audio_format(file_path); every exception of
\* the decode block is caught at lines 64-66
ValidateAudioFormat(f, libsAvailable) ==
    IF ~f.exists THEN FALSE
    ELSE IF Lower(Suffix(f.name)) \notin SUPPORTED_INPUT_FORMATS THEN FALSE
    ELSE IF ~libsAvailable THEN TRUE
    ELSE IF ~f.decodes THEN FALSE
    ELSE IF f.samplerate = 0 THEN FALSE
    ELSE IF TooShort(f.frames, f.samplerate) THEN FALSE
    ELSE IF TooLong(f.frames, f.samplerate) THEN FALSE
    ELSE TRUE

-----------------------------------------------------------------------------
(* normalize_audio and prepare_audio_for_tts *)

\* target_sr = None
NoneRate == -1

-----------------------------------------------------------------------------
(* normalize_audio: the sample arithmetic, exact over the rationals.
   An array y is a sequence of rows (one row for a 1-D array); before the
   volume step an element has the value y[c][i] / unit.  The scaling factor
   0.7 / sqrt(mean(y**2)) is kept by its square, the rational gain.num /
   gain.den, and an element of the scaled and clipped array by its sign s and
   its square sq / outden. *)

RECURSIVE Gcd(_, _)
Gcd(a, b) == IF b = 0 THEN a ELSE Gcd(b, a % b)

Rat(n, d) == [num |-> n \div Gcd(n, d), den |-> d \div Gcd(n, d)]

Sign(v) == IF v < 0 THEN -1 ELSE IF v > 0 THEN 1 ELSE 0

\* all elements of the array
RECURSIVE Elements(_)
Elements(y) == IF y = <<>> THEN <<>> ELSE Head(y) \o Elements(Tail(y))

RECURSIVE SumSq(_)
SumSq(e) == IF e = <<>> THEN 0 ELSE Head(e) * Head(e) + SumSq(Tail(e))

RECURSIVE ColumnSum(_, _)
ColumnSum(y, i) == IF y = <<>> THEN 0 ELSE Head(y)[i] + ColumnSum(Tail(y), i)

\* line 160: librosa.to_mono(y), the mean over the channel axis; the result
\* is in units of 1 / (unit * Len(y))
ToMono(y) == <<[i \in 1..Len(y[1]) |-> ColumnSum(y, i)]>>

\* line 163: np.stack([y] * target_channels)
Stack(y, n) == [c \in 1..n |-> y[1]]

\* the length librosa.resample gives: ceil(n * target_sr / orig_sr)
ResampleLen(n, orig_sr, target_sr) == (n * target_sr + orig_sr - 1) \div orig_sr

\* line 167: librosa.resample along the time axis.  The interpolation filter
\* belongs to the library; the rows are resampled by holding the sample at or
\* before each output instant
Resample(y, orig_sr, target_sr) ==
    [c \in DOMAIN y |->
       [i \in 1..ResampleLen(Len(y[c]), orig_sr, target_sr) |->
          y[c][((i - 1) * orig_sr) \div target_sr + 1]]]

\* lines 172-178 without line 178
VolumeGainUnclamped(y, unit) ==
    LET S == SumSq(Elements(y))
        N == Len(Elements(y))
    IN  IF S > 0 THEN Rat(49 * N * unit * unit, 100 * S) ELSE Rat(1, 1)

\* lines 172-179: the square of the factor y is multiplied by.
\* current_rms**2 = S / (N * unit**2); 0.7 / current_rms <= 3.0 iff
\* 49 * N * unit**2 <= 900 * S
VolumeGain(y, unit) ==
    LET S == SumSq(Elements(y))
        N == Len(Elements(y))
    IN  IF S > 0
        THEN IF 49 * N * unit * unit <= 900 * S
             THEN Rat(49 * N * unit * unit, 100 * S)
             ELSE Rat(9, 1)
        ELSE Rat(1, 1)

\* line 176: "if current_rms > 0"
VolumeScales(y) == SumSq(Elements(y)) > 0

ClipNothing(sq, den) == sq

\* line 182: np.clip(y, -1.0, 1.0) of an element of square sq / den
ClipSample(sq, den) == IF sq > den THEN den ELSE sq

\* the array after lines 179 and 182
Clipped(y, unit, gain) ==
    [c \in DOMAIN y |->
       [i \in DOMAIN y[c] |->
          [s |-> Sign(y[c][i]),
           sq |-> ClipSample(y[c][i] * y[c][i] * gain.num,
                             unit * unit * gain.den)]]]

\* the resolution of the PCM encoding (0x8000 for PCM_16)
PcmFullScale == 8

\* line 188, subtype PCM_16: libsndfile stores round(v * 0x7FFF) and a later
\* decode reads the stored integer over 0x8000.  With v**2 = sq / den,
\* round(|v| * m) = k  iff  (2k-1)**2 * den <= 4 * m**2 * sq < (2k+1)**2 * den
PcmRound(sq, den) ==
    LET m == PcmFullScale - 1
    IN  CHOOSE k \in 0..(PcmFullScale * PcmFullScale) :
          /\ k = 0 \/ (2 * k - 1) * (2 * k - 1) * den <= 4 * m * m * sq
          /\ 4 * m * m * sq < (2 * k + 1) * (2 * k + 1) * den

NoWritten ==
    [unit |-> 1, samplerate |-> 0, channels |-> 0, frames |-> 0,
     samples |-> <<>>]

\* line 188: sf.write(output_path, y, sr): soundfile takes a 1-D array as the
\* frames of a mono file and a 2-D array as frames x channels, so row r of a
\* 2-D y becomes frame r of the file, and its columns the channels
Written(out, outden, ndim, sr) ==
    IF ndim = 1
    THEN [unit |-> PcmFullScale, samplerate |-> sr, channels |-> 1,
          frames |-> Len(out[1]),
          samples |-> <<[i \in DOMAIN out[1] |->
                           out[1][i].s * PcmRound(out[1][i].sq, outden)]>>]
    ELSE [unit |-> PcmFullScale, samplerate |-> sr,
          channels |-> Len(out[1]), frames |-> Len(out),
          samples |-> [j \in DOMAIN out[1] |->
                         [r \in DOMAIN out |->
                            out[r][j].s * PcmRound(out[r][j].sq, outden)]]]

IdleJob ==
    [pc |-> "idle", op |-> "none", input |-> MissingFile(<<>>),
     output_dir |-> <<>>, output |-> <<>>,
     target_sr |-> 0, target_channels |-> 0, normalize_volume |-> FALSE,
     sr |-> 0, ndim |-> 0, channels |-> 0, steps |-> <<>>, failed |-> "none",
     y |-> <<>>, unit |-> 1, gain |-> [num |-> 1, den |-> 1],
     scaled |-> FALSE, out |-> <<>>, outden |-> 1, written |-> NoWritten,
     pass |-> 1, first |-> NoWritten,
     trace |-> <<>>, valid |-> NoResult, norm |-> NoResult, wrote |-> {},
     result |-> NoResult]

NzTryStepsBeforeMkdir == {"decode", "channels", "resample", "volume", "clip"}

\* the statements inside the try block of normalize_audio, lines 152-191
NzTrySteps ==
    {"decode", "channels", "resample", "volume", "clip", "mkdir", "encode"}

\* a statement of normalize_audio raised
NzFail(step) ==
    IF step \in NzTrySteps
    THEN [job EXCEPT !.pc = "nz_except", !.failed = step]
    ELSE [job EXCEPT !.pc = "done", !.failed = step,
                     !.result = Raised("Exception")]

NzDone(step, pc) == [job EXCEPT !.pc = pc, !.steps = Append(@, step)]

\* lines 145-150: the library test and the default target rate
NormalizeEnter(frame) ==
    IF ~libs
    THEN [frame EXCEPT !.pc = "nz_return", !.norm = Returned(FALSE)]
    ELSE [frame EXCEPT !.pc = "nz_decode",
                       !.target_sr = IF frame.target_sr = NoneRate
                                     THEN AUDIO_SAMPLE_RATE
                                     ELSE frame.target_sr]

audioFrame == <<pyttsx3_engine, available_voices, current_voice, engine_voice,
                call, ret, libs>>

validate_audio_format(f) ==
    /\ job.pc = "idle"
    /\ LET v == ValidateAudioFormat(f, libs)
       IN  job' = [IdleJob EXCEPT !.op = "validate", !.pc = "done",
                                  !.input = f, !.trace = <<"validate">>,
                                  !.valid = Returned(v), !.result = Returned(v)]
    /\ UNCHANGED <<audioFrame, files, dirs>>

normalize_audio(f, output_path, target_sr, target_channels, normalize_volume) ==
    /\ job.pc = "idle"
    /\ job' = NormalizeEnter(
                 [IdleJob EXCEPT !.op = "normalize", !.input = f,
                                 !.output = output_path,
                                 !.target_sr = target_sr,
                                 !.target_channels = target_channels,
                                 !.normalize_volume = normalize_volume,
                                 !.trace = <<"normalize">>])
    /\ UNCHANGED <<audioFrame, files, dirs>>

PrepareProceedsAlways(valid) == TRUE

\* line 208: "if not validate_audio_format(file_path): return None"
PrepareProceeds(valid) == valid

\* lines 216-219
PrepareResult(norm, output_path) ==
    IF norm = Returned(TRUE) THEN Returned(output_path) ELSE ReturnedNone

prepare_audio_for_tts(f, output_dir) ==
    /\ job.pc = "idle"
    /\ LET v == ValidateAudioFormat(f, libs)
           frame == [IdleJob EXCEPT !.op = "prepare", !.input = f,
                                    !.output_dir = output_dir,
                                    !.valid = Returned(v)]
       IN  IF ~PrepareProceeds(v)
           THEN job' = [frame EXCEPT !.pc = "done", !.trace = <<"validate">>,
                                     !.result = ReturnedNone]
           ELSE job' = NormalizeEnter(
                          [frame EXCEPT !.output = ProcessedPath(output_dir, f.name),
                                        !.target_sr = NoneRate,
                                        !.target_channels = 1,
                                        !.normalize_volume = TRUE,
                                        !.trace = <<"validate", "normalize">>])
    /\ UNCHANGED <<audioFrame, files, dirs>>

\* line 156: librosa.load(input_path, sr=None, mono=False)
NzDecode ==
    /\ job.pc = "nz_decode"
    /\ \E ok \in BOOLEAN :
         job' = IF ok /\ job.input.exists /\ job.input.decodes
                THEN [NzDone("decode", "nz_channels") EXCEPT
                         !.sr = job.input.samplerate,
                         !.channels = job.input.channels,
                         !.ndim = IF job.input.channels = 1 THEN 1 ELSE 2,
                         !.y = job.input.samples,
                         !.unit = job.input.unit]
                ELSE NzFail("decode")
    /\ UNCHANGED <<audioFrame, files, dirs>>

\* lines 159-163: librosa.to_mono or np.stack
NzChannels ==
    /\ job.pc = "nz_channels"
    /\ \E ok \in BOOLEAN :
         job' = IF ~ok THEN NzFail("channels")
                ELSE IF job.target_channels = 1 /\ job.ndim > 1
                THEN [NzDone("channels", "nz_resample") EXCEPT
                         !.ndim = 1, !.channels = 1,
                         !.y = ToMono(job.y),
                         !.unit = job.unit * Len(job.y)]
                ELSE IF job.target_channels > 1 /\ job.ndim = 1
                THEN [NzDone("channels", "nz_resample") EXCEPT
                         !.ndim = 2, !.channels = job.target_channels,
                         !.y = Stack(job.y, job.target_channels)]
                ELSE [job EXCEPT !.pc = "nz_resample"]
    /\ UNCHANGED <<audioFrame, files, dirs>>

\* lines 166-168
NzResample ==
    /\ job.pc = "nz_resample"
    /\ IF job.sr # job.target_sr
       THEN \E ok \in BOOLEAN :
              job' = IF ok
                     THEN [NzDone("resample", "nz_volume") EXCEPT
                              !.sr = job.target_sr,
                              !.y = Resample(job.y, job.sr, job.target_sr)]
                     ELSE NzFail("resample")
       ELSE job' = [job EXCEPT !.pc = "nz_volume"]
    /\ UNCHANGED <<audioFrame, files, dirs>>

\* lines 171-179
NzVolume ==
    /\ job.pc = "nz_volume"
    /\ IF job.normalize_volume
       THEN \E ok \in BOOLEAN :
              job' = IF ok
                     THEN [NzDone("volume", "nz_clip") EXCEPT
                              !.gain = VolumeGain(job.y, job.unit),
                              !.scaled = VolumeScales(job.y)]
                     ELSE NzFail("volume")
       ELSE job' = [job EXCEPT !.pc = "nz_clip"]
    /\ UNCHANGED <<audioFrame, files, dirs>>

\* line 182: np.clip
NzClip ==
    /\ job.pc = "nz_clip"
    /\ \E ok \in BOOLEAN :
         job' = IF ok
                THEN [NzDone("clip", "nz_mkdir") EXCEPT
                         !.out = Clipped(job.y, job.unit, job.gain),
                         !.outden = job.unit * job.unit * job.gain.den]
                ELSE NzFail("clip")
    /\ UNCHANGED <<audioFrame, files, dirs>>

\* line 185: output_path.parent.mkdir(parents=True, exist_ok=True)
NzMkdir ==
    /\ job.pc = "nz_mkdir"
    /\ \E ok \in BOOLEAN :
         IF ok
         THEN /\ job' = NzDone("mkdir", "nz_encode")
              /\ dirs' = dirs \cup {Dirname(job.output)}
         ELSE /\ job' = NzFail("mkdir")
              /\ dirs' = dirs
    /\ UNCHANGED <<audioFrame, files>>

\* lines 188-191: sf.write(..., format='WAV', subtype='PCM_16'), return True;
\* a write that raises may leave a file behind
NzEncode ==
    /\ job.pc = "nz_encode"
    /\ \E ok \in BOOLEAN, partial \in BOOLEAN :
         IF ok
         THEN /\ job' = [NzDone("encode", "nz_return") EXCEPT
                            !.norm = Returned(TRUE),
                            !.wrote = @ \cup {job.output},
                            !.written = Written(job.out, job.outden,
                                                job.ndim, job.sr)]
              /\ files' = files \cup {job.output}
         ELSE /\ job' = [NzFail("encode") EXCEPT
                            !.wrote = IF partial THEN @ \cup {job.output} ELSE @]
              /\ files' = IF partial THEN files \cup {job.output} ELSE files
    /\ UNCHANGED <<audioFrame, dirs>>

\* lines 193-195: log and return False
NzExcept ==
    /\ job.pc = "nz_except"
    /\ job' = [job EXCEPT !.pc = "nz_return", !.norm = Returned(FALSE)]
    /\ UNCHANGED <<audioFrame, files, dirs>>

\* normalize_audio hands its value to its caller
NzReturn ==
    /\ job.pc = "nz_return"
    /\ job' = [job EXCEPT !.pc = "done",
                          !.result = IF job.op = "prepare"
                                     THEN PrepareResult(job.norm, job.output)
                                     ELSE job.norm]
    /\ UNCHANGED <<audioFrame, files, dirs>>

\* the caller takes the result
TakeJob ==
    /\ job.pc = "done"
    /\ job' = IdleJob
    /\ UNCHANGED <<audioFrame, files, dirs>>

NormalizeOutputs == {<<"voices", Sep, "n", ".wav">>}

TargetRates == {NoneRate, DefaultSampleRate}

TargetChannels == {1, 2}

AudioNext ==
    \/ \E f \in InputFiles : validate_audio_format(f)
    \/ \E f \in NormalizeInputs, out \in NormalizeOutputs, tsr \in TargetRates,
          tch \in TargetChannels, vol \in BOOLEAN :
            normalize_audio(f, out, tsr, tch, vol)
    \/ \E f \in InputFiles, d \in OutputDirs : prepare_audio_for_tts(f, d)
    \/ NzDecode
    \/ NzChannels
    \/ NzResample
    \/ NzVolume
    \/ NzClip
    \/ NzMkdir
    \/ NzEncode
    \/ NzExcept
    \/ NzReturn
    \/ TakeJob

-----------------------------------------------------------------------------
(* normalize_audio on short signals *)

MaxFrames == 2

SignalName == <<"s", Dot, "w", "a", "v">>

\* rows of samples in quarters: -1.0, 0.0, 0.25 and the out-of-range 1.5 a
\* floating-point file can hold
MonoRows == UNION {[1..n -> {-4, 0, 1, 6}] : n \in 1..MaxFrames}

\* (left, right) frames in quarters
StereoFrames == {<<4, -4>>, <<1, 0>>, <<6, 4>>}

StereoRows ==
    {<<[i \in DOMAIN f |-> f[i][1]], [i \in DOMAIN f |-> f[i][2]]>> :
        f \in UNION {[1..n -> StereoFrames] : n \in 1..MaxFrames}}

\* rows of samples in hundredths: a signal of RMS 0.01
QuietRows == UNION {[1..n -> {-1, 1}] : n \in 1..MaxFrames}

Signals ==
    {[unit |-> 4, samples |-> <<r>>] : r \in MonoRows}
      \cup {[unit |-> 4, samples |-> y] : y \in StereoRows}
      \cup {[unit |-> 100, samples |-> <<r>>] : r \in QuietRows}

SignalFile(sig, rate) ==
    [name |-> SignalName, exists |-> TRUE, decodes |-> TRUE,
     frames |-> Len(sig.samples[1]), samplerate |-> rate,
     channels |-> Len(sig.samples), unit |-> sig.unit,
     samples |-> sig.samples]

SignalFiles == {SignalFile(sig, r) : sig \in Signals, r \in FileRates}

\* the file a successful normalize_audio left at its output path
OutputFile(frame) ==
    [name |-> frame.output, exists |-> TRUE, decodes |-> TRUE,
     frames |-> frame.written.frames,
     samplerate |-> frame.written.samplerate,
     channels |-> frame.written.channels, unit |-> frame.written.unit,
     samples |-> frame.written.samples]

\* normalize_audio applied to the output of the normalize_audio that just
\* returned True, with the same target rate, channel count and volume flag
normalize_output ==
    /\ job.pc = "done"
    /\ job.op = "normalize"
    /\ job.pass = 1
    /\ job.norm = Returned(TRUE)
    /\ job.output \in files
    /\ job' = NormalizeEnter(
                 [IdleJob EXCEPT !.op = "normalize",
                                 !.input = OutputFile(job),
                                 !.output = job.output,
                                 !.target_sr = job.target_sr,
                                 !.target_channels = job.target_channels,
                                 !.normalize_volume = job.normalize_volume,
                                 !.trace = <<"normalize">>,
                                 !.pass = 2,
                                 !.first = job.written])
    /\ UNCHANGED <<audioFrame, files, dirs>>

SignalNext ==
    \/ \E f \in SignalFiles, out \in NormalizeOutputs, tsr \in TargetRates,
          tch \in TargetChannels, vol \in BOOLEAN :
            normalize_audio(f, out, tsr, tch, vol)
    \/ normalize_output
    \/ NzDecode
    \/ NzChannels
    \/ NzResample
    \/ NzVolume
    \/ NzClip
    \/ NzMkdir
    \/ NzEncode
    \/ NzExcept
    \/ NzReturn
    \/ TakeJob

-----------------------------------------------------------------------------
(* preprocess_text *)

MaxTextLen == 5

\* characters matched by \w
WordChars == {"a", "_", "7"}

\* the characters the class of line 217 names besides \w and \s
Punctuation == {".", ",", "!", "?", ";", ":", "-"}

\* line 217: re.sub(r'[^\w\s\.,!?;:-]', '', text)
RemoveDisallowed(text) ==
    SelectSeq(text, LAMBDA ch : ch \in WordChars \cup Whitespace \cup Punctuation)

\* re.sub(r'\s+', ' ', text)
RECURSIVE CollapseWhitespace(_)
CollapseWhitespace(text) ==
    IF text = <<>> THEN <<>>
    ELSE IF Head(text) \in Whitespace
    THEN <<" ">> \o CollapseWhitespace(LStrip(Tail(text)))
    ELSE <<Head(text)>> \o CollapseWhitespace(Tail(text))

PreprocessCollapseFirst(text) ==
    RemoveDisallowed(CollapseWhitespace(Strip(text)))

\* lines 217-219
PreprocessText(text) == CollapseWhitespace(Strip(RemoveDisallowed(text)))

TextChars == {"a", " ", "\t", "-", "@"}

RawTexts == UNION {[1..n -> TextChars] : n \in 0..MaxTextLen}

textFrame == <<pyttsx3_engine, available_voices, current_voice, engine_voice,
               files, dirs, call, libs, job>>

preprocess_text(text) ==
    /\ Quiescent
    /\ ret' = [op |-> "preprocess_text", arg |-> text,
               value |-> PreprocessText(text), times |-> 1, orig |-> text]
    /\ UNCHANGED textFrame

\* preprocess_text applied to the text it returned
preprocess_result ==
    /\ ret.op = "preprocess_text"
    /\ ret.times = 1
    /\ ret' = [op |-> "preprocess_text", arg |-> ret.value,
               value |-> PreprocessText(ret.value), times |-> 2,
               orig |-> ret.orig]
    /\ UNCHANGED textFrame

TextNext ==
    \/ Quiescent /\ \E text \in RawTexts : preprocess_text(text)
    \/ preprocess_result
    \/ TakeReturn

-----------------------------------------------------------------------------
(* synthesize_text called from two threads *)

ConcurrentCalls == {1, 2}

\* two values of str(uuid4())[:8]
ConcurrentRandIds == {"0a1b2c3d", "9f8e7d6c"}

\* None resolves to the current voice, "default"
ConcurrentVoices == {None, "gtts_pt"}

\* a call that starts while another may be in progress
synthesize_text_concurrent(c, text, voice_id, output_path, sample_rate) ==
    /\ ret = NoRet
    /\ call[c].pc = "idle"
    /\ \E ts \in Timestamps, rid \in ConcurrentRandIds :
         SynthesizeEnter(c, text, voice_id, output_path, sample_rate, ts, rid)

ConcurrentNext ==
    \/ \E c \in ConcurrentCalls, voice_id \in ConcurrentVoices :
          synthesize_text_concurrent(c, <<" ", "o", "i", " ">>, voice_id,
                                     NoPath, DefaultSampleRate)
    \/ \E c \in ConcurrentCalls : PyBind(c)
    \/ \E c \in ConcurrentCalls : PyTemp(c)
    \/ \E c \in ConcurrentCalls : PySave(c)
    \/ \E c \in ConcurrentCalls : PyExists(c)
    \/ \E c \in ConcurrentCalls : PyLoad(c)
    \/ \E c \in ConcurrentCalls : PyResample(c)
    \/ \E c \in ConcurrentCalls : PyWrite(c)
    \/ \E c \in ConcurrentCalls : PyRemove(c)
    \/ \E c \in ConcurrentCalls : PyExcept(c)
    \/ \E c \in ConcurrentCalls : GttsNew(c)
    \/ \E c \in ConcurrentCalls : GttsLoad(c)
    \/ \E c \in ConcurrentCalls : GttsResample(c)
    \/ \E c \in ConcurrentCalls : GttsWrite(c)
    \/ \E c \in ConcurrentCalls : GttsRaise(c)
    \/ \E c \in ConcurrentCalls : TakeResult(c)

-----------------------------------------------------------------------------
(* Specifications *)

\* the synthesizer; tts_synthesizer_real imports librosa and soundfile
\* unconditionally, so the libraries are present wherever it runs
Init ==
    /\ SynthInit
    /\ libs = TRUE
    /\ job = IdleJob

Spec == Init /\ [][Next]_vars

\* the audio utilities, with or without librosa and soundfile
InitAudio ==
    /\ pyttsx3_engine = None
    /\ available_voices = FallbackRegistry
    /\ current_voice = InitialVoice
    /\ engine_voice = NativeVoice
    /\ files = {}
    /\ dirs = {OUTPUT_DIR}
    /\ call = [c \in CallIds |-> IdleCall]
    /\ ret = NoRet
    /\ libs \in BOOLEAN
    /\ job = IdleJob

SpecAudio == InitAudio /\ [][AudioNext]_vars

\* normalize_audio on short signals, with librosa and soundfile
InitSignal ==
    /\ InitAudio
    /\ libs = TRUE

SpecSignal == InitSignal /\ [][SignalNext]_vars

\* one synthesizer with its offline engine, used by two threads
InitConcurrent ==
    /\ pyttsx3_engine = "engine"
    /\ available_voices = FullRegistry(MaxSystemVoices)
    /\ current_voice = InitialVoice
    /\ engine_voice = NativeVoice
    /\ files = {}
    /\ dirs = {OUTPUT_DIR}
    /\ call = [c \in ConcurrentCalls |-> IdleCall]
    /\ ret = NoRet
    /\ libs = TRUE
    /\ job = IdleJob

SpecConcurrent == InitConcurrent /\ [][ConcurrentNext]_vars

\* preprocess_text on short texts
SpecText == InitSignal /\ [][TextNext]_vars

-----------------------------------------------------------------------------
(* Properties of the synthesizer, checked under Spec *)

\* the text is empty once its leading and trailing whitespace is removed
IsBlank(text) == \A i \in 1..Len(text) : text[i] \in Whitespace

FailedIn(f, engine) == \E i \in 1..Len(f.failed) : f.failed[i].engine = engine

Attempts(f, engine) ==
    Cardinality({i \in 1..Len(f.attempts) : f.attempts[i].engine = engine})

\* the call has resolved its backend (it got past the text test)
Resolved(f) == f.pc # "idle" /\ ~IsBlank(f.text)

ResolvedEngine(f) == available_voices[f.voice_to_use].engine

\* C1: a finished call on an offline-engine voice whose offline path failed
\* at some step and whose network path then succeeded did not raise: it ran
\* the network path with language "pt" on the same output path and returned
\* that output path.
C1_OfflineFailureFallsBack ==
    \A c \in CallIds :
      LET f == call[c]
      IN  ( /\ f.pc = "done"
            /\ Resolved(f)
            /\ ResolvedEngine(f) = "pyttsx3"
            /\ FailedIn(f, "pyttsx3")
            /\ ~FailedIn(f, "gtts") )
          => /\ f.result = Returned(f.output_path)
             /\ Len(f.attempts) = 2
             /\ f.attempts[2] =
                  [engine |-> "gtts", lang |-> "pt", path |-> f.output_path]

C1_Witness ==
    \E c \in CallIds :
      /\ call[c].pc = "done"
      /\ call[c].voice_to_use = "default"
      /\ call[c].failed = <<[engine |-> "pyttsx3", step |-> "decode"]>>
      /\ call[c].result = Returned(call[c].output_path)

\* C2: in every call the network path and the offline path are each attempted
\* at most once; a failed network-engine voice raises after that one attempt,
\* and a failed offline path followed by a failed fallback raises after
\* exactly those two attempts.
C2_AtMostOneAttemptEach ==
    \A c \in CallIds :
      LET f == call[c]
      IN  /\ Attempts(f, "gtts") <= 1
          /\ Attempts(f, "pyttsx3") <= 1
          /\ ( f.pc = "done" /\ Resolved(f) /\ FailedIn(f, "gtts") )
             => /\ f.result.kind = "raised"
                /\ IF ResolvedEngine(f) = "gtts"
                   THEN /\ Len(f.attempts) = 1
                        /\ f.attempts[1].engine = "gtts"
                        /\ ~FailedIn(f, "pyttsx3")
                   ELSE /\ Len(f.attempts) = 2
                        /\ f.attempts[1].engine = "pyttsx3"
                        /\ f.attempts[2].engine = "gtts"
                        /\ FailedIn(f, "pyttsx3")

C2_Witness ==
    \E c \in CallIds :
      /\ call[c].pc = "done"
      /\ call[c].result.kind = "raised"
      /\ FailedIn(call[c], "pyttsx3")
      /\ FailedIn(call[c], "gtts")
      /\ Len(call[c].attempts) = 2

\* C3 as stated: the explicit voice_id if it is in the registry, otherwise
\* the current voice, and gtts_pt only if the current voice is not in the
\* registry.
C3_CurrentVoiceBeforeDefault ==
    \A c \in CallIds :
      Resolved(call[c]) =>
        call[c].voice_to_use =
          ResolveVoiceCurrentFirst(call[c].voice_id, current_voice,
                                   available_voices)

\* C3 (amended): the explicit voice_id if it is given and in the registry;
\* gtts_pt if it is given but not in the registry; the current voice if no
\* voice_id is given (None or empty) and the current voice is in the registry;
\* gtts_pt if no voice_id is given and the current voice is not in the
\* registry. The first attempt runs the engine of the resolved entry.
C3_GivenVoiceOrDefault ==
    \A c \in CallIds :
      LET f == call[c]
          given == f.voice_id # None /\ f.voice_id # ""
          reg == DOMAIN available_voices
      IN  Resolved(f) =>
            /\ given /\ f.voice_id \in reg => f.voice_to_use = f.voice_id
            /\ given /\ f.voice_id \notin reg => f.voice_to_use = "gtts_pt"
            /\ ~given /\ current_voice \in reg => f.voice_to_use = current_voice
            /\ ~given /\ current_voice \notin reg => f.voice_to_use = "gtts_pt"
            /\ f.attempts # <<>> => f.attempts[1].engine = ResolvedEngine(f)

C3_Witness ==
    \E c \in CallIds :
      /\ call[c].pc = "gtts_new"
      /\ call[c].voice_id = "nonexistent"
      /\ current_voice = "default"
      /\ "default" \in DOMAIN available_voices
      /\ call[c].voice_to_use = "gtts_pt"

\* C4: set_voice(id) with id outside the registry returns false and leaves the
\* current voice, the registry and the engine's active voice unchanged, so a
\* synthesize call without voice_id resolves as before; with id in the
\* registry it returns true and id becomes the current voice.
C4_SelectVoice ==
    [][ (ret = NoRet /\ ret'.op = "set_voice") =>
          IF ret'.arg \in DOMAIN available_voices
          THEN /\ ret'.value = TRUE
               /\ current_voice' = ret'.arg
               /\ available_voices' = available_voices
          ELSE /\ ret'.value = FALSE
               /\ current_voice' = current_voice
               /\ available_voices' = available_voices
               /\ engine_voice' = engine_voice
               /\ ResolveVoice(None, current_voice', available_voices')
                    = ResolveVoice(None, current_voice, available_voices) ]_vars

C4_Witness ==
    /\ ret.op = "set_voice"
    /\ ret.arg = "nonexistent"
    /\ ret.value = FALSE
    /\ current_voice = "system_0"
    /\ engine_voice = SystemVoiceHandle(0)

\* C5: the registry always contains the network-engine entry gtts_pt with
\* language pt.
C5_RegistryHasNetworkDefault ==
    /\ "gtts_pt" \in DOMAIN available_voices
    /\ available_voices["gtts_pt"].engine = "gtts"
    /\ available_voices["gtts_pt"].lang = "pt"

C5_Witness ==
    /\ DOMAIN available_voices = {"gtts_pt"}
    /\ pyttsx3_engine = None
    /\ \E c \in CallIds : /\ call[c].pc = "done"
                          /\ call[c].result.kind = "returned"

\* C6 as stated: the current voice is always the id of a registry entry.
C6_CurrentVoiceInRegistry == current_voice \in DOMAIN available_voices

\* C6 (amended): the current voice is the id of a registry entry in every
\* state of a synthesizer whose initialisation succeeded; after a failed
\* initialisation it is either the initial "default", which the registry
\* does not contain, or a registry entry chosen by a successful set_voice.
C6_CurrentVoiceInRegistryOrInitial ==
    IF available_voices = FallbackRegistry
    THEN current_voice \in DOMAIN available_voices \cup {"default"}
    ELSE current_voice \in DOMAIN available_voices

C6_Witness ==
    /\ available_voices = FallbackRegistry
    /\ ret.op = "set_voice"
    /\ ret.arg = "gtts_pt"
    /\ ret.value = TRUE
    /\ current_voice = "gtts_pt"

\* C7: synthesize_text with text that is blank after trimming raises the input
\* error in its first step: no backend is attempted, no output or temporary
\* path is generated, no directory or file is created, and the current voice,
\* the registry and the engine are unchanged.
C7_BlankTextRejectedFirst ==
    [][ \A c \in CallIds :
          (call[c].pc = "idle" /\ call'[c].pc # "idle" /\ IsBlank(call'[c].text))
          => /\ call'[c].pc = "done"
             /\ call'[c].result = Raised("ValueError")
             /\ call'[c].attempts = <<>>
             /\ call'[c].failed = <<>>
             /\ call'[c].output_path \in OutPathChoices
             /\ call'[c].temp_path = <<>>
             /\ files' = files
             /\ dirs' = dirs
             /\ current_voice' = current_voice
             /\ available_voices' = available_voices
             /\ engine_voice' = engine_voice
             /\ pyttsx3_engine' = pyttsx3_engine ]_vars

C7_Witness ==
    \E c \in CallIds :
      /\ call[c].pc = "done"
      /\ call[c].text = <<" ", "\n">>
      /\ call[c].output_path = NoPath
      /\ call[c].result = Raised("ValueError")

-----------------------------------------------------------------------------
(* Properties of the audio utilities, checked under SpecAudio *)

InTrace(name) == \E i \in 1..Len(job.trace) : job.trace[i] = name

\* the value C8 gives validate for a file
C8_Expected(f) ==
    /\ f.exists
    /\ Lower(Suffix(f.name)) \in
         {<<".", "w", "a", "v">>, <<".", "m", "p", "3">>,
          <<".", "f", "l", "a", "c">>}
    /\ \/ ~libs
       \/ /\ f.decodes
          /\ MIN_AUDIO_DURATION * f.samplerate <= f.frames
          /\ f.frames <= MAX_AUDIO_DURATION * f.samplerate

\* C8: validate never raises and returns true exactly when the file exists,
\* its lower-cased extension is .wav, .mp3 or .flac, and either the audio
\* libraries are missing or the file decodes with
\* MIN_AUDIO_DURATION <= frames / samplerate <= MAX_AUDIO_DURATION.
C8_ValidateExact ==
    (job.op = "validate" /\ job.pc = "done")
      => job.result = Returned(C8_Expected(job.input))

C8_Witness ==
    /\ job.op = "validate"
    /\ job.pc = "done"
    /\ libs
    /\ job.input.name = <<"r", ".", "W", "A", "V">>
    /\ job.input.frames = MIN_AUDIO_DURATION * job.input.samplerate
    /\ job.result = Returned(TRUE)

\* C9: prepare_for_tts runs validate first and normalize only after validate
\* returned true; it returns output_dir/processed_<stem>.wav exactly when both
\* succeeded and None otherwise, never raising; when validate fails it writes
\* no output file.
C9_PrepareOrder ==
    job.op = "prepare" =>
      /\ job.trace # <<>> /\ job.trace[1] = "validate"
      /\ job.valid = Returned(ValidateAudioFormat(job.input, libs))
      /\ InTrace("normalize") =>
           /\ job.valid = Returned(TRUE)
           /\ job.trace = <<"validate", "normalize">>
      /\ job.valid = Returned(FALSE) =>
           /\ job.pc = "done"
           /\ job.steps = <<>>
           /\ job.wrote = {}
           /\ job.result = ReturnedNone
      /\ job.pc = "done" =>
           job.result =
             IF job.valid = Returned(TRUE) /\ job.norm = Returned(TRUE)
             THEN Returned(job.output_dir \o <<"/", "processed_">>
                             \o Stem(job.input.name) \o <<".wav">>)
             ELSE ReturnedNone

C9_Witness ==
    /\ job.op = "prepare"
    /\ job.pc = "done"
    /\ job.input.name = <<"a", ".", "b", ".", "f", "l", "a", "c">>
    /\ job.result =
         Returned(<<"voices", "/", "processed_", "a", ".", "b", ".wav">>)
    /\ job.result.value \in files

\* C10: normalize never raises: the failure of any step, or missing audio
\* libraries, makes it return false, and it returns true only after the WAV
\* encode step has completed.
C10_NormalizeNeverRaises ==
    InTrace("normalize") =>
      /\ job.result.kind # "raised"
      /\ job.pc \in {"nz_return", "done"} =>
           job.norm \in {Returned(TRUE), Returned(FALSE)}
      /\ job.norm = Returned(TRUE) =>
           /\ job.failed = "none"
           /\ libs
           /\ job.steps # <<>>
           /\ job.steps[Len(job.steps)] = "encode"
           /\ job.output \in files
      /\ (job.failed # "none" /\ job.pc \in {"nz_return", "done"}) =>
           job.norm = Returned(FALSE)
      /\ ~libs => job.norm = Returned(FALSE) /\ job.steps = <<>>
      /\ (job.op = "normalize" /\ job.pc = "done") => job.result = job.norm

C10_Witness ==
    /\ job.op = "normalize"
    /\ job.pc = "done"
    /\ job.failed = "encode"
    /\ job.wrote = {job.output}
    /\ job.result = Returned(FALSE)

-----------------------------------------------------------------------------
(* Properties of the sample arithmetic, checked under SpecSignal *)

\* the position of a step among the executed steps, 0 when it did not run
StepIndex(steps, name) ==
    IF \E i \in DOMAIN steps : steps[i] = name
    THEN CHOOSE i \in DOMAIN steps : steps[i] = name
    ELSE 0

NormalizeSucceeded ==
    /\ job.op = "normalize"
    /\ job.norm = Returned(TRUE)

\* C11: a successful normalize_audio of a mono or stereo file with
\* target_channels = 1 writes one channel at the target rate with every
\* sample in [-1.0, 1.0]; the down-mix precedes the resampling, and the clip
\* runs after the volume scaling and also when normalize_volume is off.
C11_MonoOutputInRange ==
    (NormalizeSucceeded /\ job.target_channels = 1
        /\ job.input.channels \in {1, 2}) =>
      /\ job.written.channels = 1
      /\ job.written.samplerate = job.target_sr
      /\ \A c \in DOMAIN job.out : \A i \in DOMAIN job.out[c] :
            job.out[c][i].sq <= job.outden
      /\ \A c \in DOMAIN job.written.samples :
            \A i \in DOMAIN job.written.samples[c] :
              /\ job.written.samples[c][i] <= job.written.unit
              /\ -job.written.samples[c][i] <= job.written.unit
      /\ StepIndex(job.steps, "clip") > 0
      /\ StepIndex(job.steps, "clip") > StepIndex(job.steps, "volume")
      /\ job.normalize_volume => StepIndex(job.steps, "volume") > 0
      /\ (StepIndex(job.steps, "channels") > 0
            /\ StepIndex(job.steps, "resample") > 0)
           => StepIndex(job.steps, "channels")
                < StepIndex(job.steps, "resample")

\* a stereo file at another rate, an element above 1.0 after the down-mix
\* and the resampling, volume normalization off
C11_Witness ==
    /\ NormalizeSucceeded
    /\ job.pass = 1
    /\ job.target_channels = 1
    /\ job.input.channels = 2
    /\ job.input.samplerate # job.target_sr
    /\ ~job.normalize_volume
    /\ \E i \in DOMAIN job.y[1] : job.y[1][i] > job.unit
    /\ \E i \in DOMAIN job.out[1] : job.out[1][i].sq = job.outden

\* C12: with volume normalization on, the factor y is multiplied by is
\* min(0.7 / RMS, 3.0) whenever RMS > 0: never above 3.0, and exactly 3.0 for
\* RMS 0.01; for an all-zero y nothing is scaled and the samples written are
\* the zero samples that came in.
C12_ScalingFactor ==
    (job.op = "normalize" /\ StepIndex(job.steps, "volume") > 0) =>
      LET e == Elements(job.y)
          S == SumSq(e)
          N == Len(e)
          u == job.unit
      IN  /\ IF S = 0
             THEN /\ job.gain = [num |-> 1, den |-> 1]
                  /\ ~job.scaled
                  /\ \A c \in DOMAIN job.out : \A i \in DOMAIN job.out[c] :
                        job.out[c][i].sq = 0
                  /\ \A c \in DOMAIN job.written.samples :
                        \A i \in DOMAIN job.written.samples[c] :
                          job.written.samples[c][i] = 0
             ELSE /\ job.scaled
                  /\ job.gain.num <= 9 * job.gain.den
                  /\ IF 49 * N * u * u > 900 * S
                     THEN job.gain = [num |-> 9, den |-> 1]
                     ELSE job.gain.num * 100 * S = 49 * N * u * u * job.gain.den
          /\ (u = 100 /\ \A i \in DOMAIN e : e[i] * e[i] = 1)
               => job.gain = [num |-> 9, den |-> 1]

\* a signal of RMS 0.01 went through the volume step and was written
C12_Witness ==
    /\ NormalizeSucceeded
    /\ job.normalize_volume
    /\ job.unit = 100
    /\ \A i \in DOMAIN Elements(job.y) :
          Elements(job.y)[i] * Elements(job.y)[i] = 1
    /\ job.gain = [num |-> 9, den |-> 1]
    /\ \E i \in DOMAIN job.out[1] : 9 = job.out[1][i].sq

\* the sum of the squares (numerators over outden) of the array written
RECURSIVE SumOut(_)
SumOut(e) == IF e = <<>> THEN 0 ELSE Head(e).sq + SumOut(Tail(e))

\* mean(out**2) <= 0.7**2
RmsWithinCap(out, outden) ==
    100 * SumOut(Elements(out)) <= 49 * Len(Elements(out)) * outden

\* C13: normalize_audio applied to the output of a successful normalize_audio
\* with the same target rate, channel count and volume flag converts no
\* channels and resamples nothing, leaves rate and duration as they were, and
\* writes samples whose RMS is at most 0.7.
C13_SecondPassConverges ==
    (NormalizeSucceeded /\ job.pass = 2) =>
      /\ StepIndex(job.steps, "channels") = 0
      /\ StepIndex(job.steps, "resample") = 0
      /\ job.written.samplerate = job.first.samplerate
      /\ job.written.frames = job.first.frames
      /\ RmsWithinCap(job.out, job.outden)

-----------------------------------------------------------------------------
(* Properties of preprocess_text, checked under SpecText *)

NonWhitespace(text) == SelectSeq(text, LAMBDA ch : ch \notin Whitespace)

\* C14: preprocess_text changes no state; its result holds only word
\* characters, whitespace and . , ! ? ; : - , no two adjacent whitespace
\* characters and no whitespace at either end; applied to its own result it
\* returns it unchanged; characters are removed before whitespace is
\* collapsed, so "a @ a" becomes "a a".
C14_PreprocessIdempotent ==
    [][(ret' # ret /\ ret'.op = "preprocess_text") =>
         LET v == ret'.value
         IN  /\ UNCHANGED textFrame
             /\ \A i \in DOMAIN v :
                   v[i] \in WordChars \cup Whitespace \cup Punctuation
             /\ \A i \in 1..(Len(v) - 1) :
                   ~(v[i] \in Whitespace /\ v[i + 1] \in Whitespace)
             /\ v # <<>> => (v[1] \notin Whitespace
                               /\ v[Len(v)] \notin Whitespace)
             /\ NonWhitespace(v)
                   = SelectSeq(ret'.arg,
                               LAMBDA ch : ch \in WordChars \cup Punctuation)
             /\ ret'.times = 2 => v = ret'.arg
             /\ ret'.arg = <<"a", " ", "@", " ", "a">>
                   => v = <<"a", " ", "a">>]_vars

\* the second application on the result of "a @ a"
C14_Witness ==
    /\ ret.op = "preprocess_text"
    /\ ret.times = 2
    /\ ret.orig = <<"a", " ", "@", " ", "a">>
    /\ ret.arg = <<"a", " ", "a">>
    /\ ret.value = <<"a", " ", "a">>

-----------------------------------------------------------------------------
(* Properties of concurrent calls, checked under SpecConcurrent *)

\* the files a call writes or deletes: its output file and its temporary file
Targets(frame) ==
    {frame.output_path.toks}
      \cup (IF frame.temp_path = <<>> THEN {} ELSE {frame.temp_path})

HasGeneratedPath(frame) ==
    \E ts \in Timestamps, rid \in ConcurrentRandIds :
       frame.output_path = GeneratedPath(ts, rid)

\* C15: of two calls in progress with distinct generated output paths, the
\* output and temporary files of one are none of the other's, and a step of
\* one call neither creates nor removes a file of the other.
C15_DisjointFiles ==
    [][\A c \in DOMAIN call : \A d \in DOMAIN call \ {c} :
         (/\ call'[c] # call[c]
          /\ HasGeneratedPath(call'[c])
          /\ HasGeneratedPath(call[d])
          /\ call'[c].output_path # call[d].output_path) =>
           /\ Targets(call'[c]) \cap Targets(call[d]) = {}
           /\ \A p \in Targets(call[d]) : (p \in files') = (p \in files)]_vars

\* both calls went through the offline path with distinct generated paths;
\* one has returned and its output is in place while the other has written
\* its temporary file
C15_Witness ==
    /\ HasGeneratedPath(call[1])
    /\ HasGeneratedPath(call[2])
    /\ call[1].output_path # call[2].output_path
    /\ call[1].pc = "done"
    /\ call[1].result = Returned(call[1].output_path)
    /\ Len(call[1].attempts) = 1
    /\ call[1].temp_path # <<>>
    /\ call[1].output_path.toks \in files
    /\ call[2].pc = "py_remove"
    /\ call[2].temp_path \in files
    /\ call[2].output_path.toks \in files

-----------------------------------------------------------------------------
(* Properties of the files and the engine voice of the synthesizer, checked
   under Spec *)

\* C16: when synthesize_text returns a path, a file is at that path, and the
\* temporary file of the offline path is another file than the output file,
\* whatever output path the caller gave.
C16_ReturnedFileExists ==
    \A c \in CallIds :
      /\ (call[c].pc = "done" /\ call[c].result.kind = "returned")
           => call[c].result.value.toks \in files
      /\ call[c].temp_path # <<>>
           => call[c].temp_path # call[c].output_path.toks

\* C17: once a synthesize_text call has finished, by a return of the offline
\* path, by a return of the network fallback or by an exception, the
\* temporary file of its offline path is gone, unless os.remove was called
\* and failed.
C17_TempFileRemoved ==
    \A c \in CallIds :
      (/\ call[c].pc = "done"
       /\ call[c].temp_path # <<>>
       /\ call[c].temp_path # call[c].output_path.toks
       /\ call[c].remove # "failed")
        => call[c].temp_path \notin files

\* the offline engine is synthesizing for the call: past the voice binding
\* of lines 173-174 and not yet in the except block
RunsOffline(f) ==
    f.pc \in {"py_temp", "py_save", "py_exists", "py_load", "py_resample",
              "py_write", "py_remove"}

\* C18: while the offline engine synthesizes, its active voice is the one of
\* the backend resolved for the call, whatever calls came before: the system
\* voice of a system backend, and for "default", which has no system voice,
\* the voice the engine has after construction.
C18_EngineVoiceOfResolvedBackend ==
    \A c \in CallIds :
      RunsOffline(call[c]) =>
        engine_voice =
          IF "system_voice" \in DOMAIN available_voices[call[c].voice_to_use]
          THEN available_voices[call[c].voice_to_use].system_voice
          ELSE NativeVoice

====
